---- MODULE Spec2Model ----
(***************************************************************************)
(* Model of JacocoBadgeGenerator.py: the pure helpers (percentage maths,   *)
(* badge colour selection, path forming, report filtering, threshold       *)
(* parsing) as operators, and the __main__ driver as a state machine.      *)
(*                                                                         *)
(* Python strings are sequences of one-character strings.  Python floats   *)
(* that hold quotients are exact fractions <<n, d>> with d > 0, compared   *)
(* by cross multiplication.                                                *)
(***************************************************************************)
EXTENDS Integers, Sequences, FiniteSets, TLC

VARIABLES argv, fs, pc, opts, badgesDirectory, jacocoFileList, filteredFileList,
          cov, branches, stdout, badgeFiles, dirs, exitCode, exitAt, fn, args, ret

vars == <<argv, fs, pc, opts, badgesDirectory, jacocoFileList, filteredFileList,
          cov, branches, stdout, badgeFiles, dirs, exitCode, exitAt, fn, args, ret>>

driverVars == <<argv, fs, pc, opts, badgesDirectory, jacocoFileList, filteredFileList,
                cov, branches, stdout, badgeFiles, dirs, exitCode, exitAt>>

callVars == <<fn, args, ret>>

(***************************************************************************)
(* Bounds of the model.                                                    *)
(***************************************************************************)
MaxFiles == 2

MaxLen == 3

MaxCount == 4

MaxDen == 12

MaxRows == 2

(***************************************************************************)
(* Strings.                                                                *)
(***************************************************************************)
Str(S, n) == UNION {[1..k -> S] : k \in 0..n}

StartsWith(s, p) == Len(s) >= Len(p) /\ SubSeq(s, 1, Len(p)) = p

Tail2(s) == SubSeq(s, 3, Len(s))

HasDoubleSlash(s) == \E i \in 1..(Len(s) - 1) : s[i] = "/" /\ s[i + 1] = "/"

Digits == <<"0", "1", "2", "3", "4", "5", "6", "7", "8", "9">>

IsDigit(c) == \E i \in 1..10 : Digits[i] = c

DigitVal(c) == (CHOOSE i \in 1..10 : Digits[i] = c) - 1

AllDigits(s) == \A i \in 1..Len(s) : IsDigit(s[i])

RECURSIVE DecVal(_)
DecVal(s) == IF Len(s) = 0 THEN 0
             ELSE 10 * DecVal(SubSeq(s, 1, Len(s) - 1)) + DigitVal(s[Len(s)])

RECURSIVE Pow10(_)
Pow10(k) == IF k = 0 THEN 1 ELSE 10 * Pow10(k - 1)

RECURSIVE IntStr(_)
IntStr(n) == IF n < 10 THEN <<Digits[n + 1]>>
             ELSE IntStr(n \div 10) \o <<Digits[(n % 10) + 1]>>

IsSpace(c) == c = " "

RECURSIVE LStrip(_)
LStrip(s) == IF Len(s) > 0 /\ IsSpace(s[1]) THEN LStrip(Tail(s)) ELSE s

RECURSIVE RStrip(_)
RStrip(s) == IF Len(s) > 0 /\ IsSpace(s[Len(s)])
             THEN RStrip(SubSeq(s, 1, Len(s) - 1)) ELSE s

Strip(s) == RStrip(LStrip(s))

(***************************************************************************)
(* Fractions standing for Python numbers.                                  *)
(***************************************************************************)
RLess(a, b) == a[1] * b[2] < b[1] * a[2]

REq(a, b) == a[1] * b[2] = b[1] * a[2]

RLeq(a, b) == a[1] * b[2] <= b[1] * a[2]

Zero == <<0, 1>>

One == <<1, 1>>

(***************************************************************************)
(* int(s) and float(s) on the character set of the model: surrounding      *)
(* blanks, an optional sign, decimal digits, at most one point.            *)
(***************************************************************************)
Unsigned(s) == IF Len(s) > 0 /\ (s[1] = "-" \/ s[1] = "+") THEN Tail(s) ELSE s

Sign(s) == IF Len(s) > 0 /\ s[1] = "-" THEN -1 ELSE 1

IntOk(s) == LET u == Unsigned(Strip(s)) IN Len(u) > 0 /\ AllDigits(u)

IntVal(s) == LET t == Strip(s) IN Sign(t) * DecVal(Unsigned(t))

PointAt(u) == IF \E i \in 1..Len(u) : u[i] = "."
              THEN CHOOSE i \in 1..Len(u) : u[i] = "." /\ \A j \in 1..(i - 1) : u[j] # "."
              ELSE 0

FloatOk(s) ==
    LET u == Unsigned(Strip(s))
        p == PointAt(u)
    IN IF p = 0 THEN Len(u) > 0 /\ AllDigits(u)
       ELSE /\ Len(u) > 1
            /\ AllDigits(SubSeq(u, 1, p - 1))
            /\ AllDigits(SubSeq(u, p + 1, Len(u)))

FloatVal(s) ==
    LET t == Strip(s)
        u == Unsigned(t)
        p == PointAt(u)
    IN IF p = 0 THEN <<Sign(t) * DecVal(u), 1>>
       ELSE <<Sign(t) * DecVal(SubSeq(u, 1, p - 1) \o SubSeq(u, p + 1, Len(u))),
              Pow10(Len(u) - p)>>

(***************************************************************************)
(* calculatePercentage                                                     *)
(***************************************************************************)
calculatePercentage_swapped(covered, missed) ==
    IF missed = 0 THEN One ELSE <<missed, covered + missed>>

calculatePercentage(covered, missed) ==
    IF missed = 0 THEN One ELSE <<covered, covered + missed>>

(***************************************************************************)
(* badgeCoverageStringColorPair and generateBadge                          *)
(***************************************************************************)
colors == <<"#4c1", "#97ca00", "#a4a61d", "#dfb317", "#fe7d37", "#e05d44">>

\* int(1000 * coverage): the truncated percentage in tenths of a point
Truncated(coverage) == (1000 * coverage[1]) \div coverage[2]

\* math.ceil((100 - coverage) / 10), clamped to the last colour
ColorIndex_floor(coverage) ==
    LET c == (1000 - Truncated(coverage)) \div 100
    IN IF c >= Len(colors) THEN Len(colors) - 1 ELSE c

ColorIndex(coverage) ==
    LET c == ((1000 - Truncated(coverage)) + 99) \div 100
    IN IF c >= Len(colors) THEN Len(colors) - 1 ELSE c

badgeCoverageStringColorPair(coverage) ==
    LET t == Truncated(coverage)
        covStr == IF t % 10 = 0
                  THEN IntStr(t \div 10) \o <<"%">>
                  ELSE IntStr(t \div 10) \o <<".">> \o IntStr(t % 10) \o <<"%">>
    IN <<covStr, colors[ColorIndex(coverage) + 1]>>

generateBadge(covStr, color, badgeType) ==
    [label |-> covStr, fill |-> color, title |-> badgeType,
     textLength |-> IF Len(covStr) >= 4 THEN "330"
                    ELSE IF Len(covStr) >= 3 THEN "250" ELSE "170"]

(***************************************************************************)
(* formFullPathToFile.  filename[0] on an empty string raises IndexError.  *)
(***************************************************************************)
StripDotSlash(s) == IF Len(s) > 1 /\ SubSeq(s, 1, 2) = <<".", "/">> THEN Tail2(s) ELSE s

StripSlash(s) == IF Len(s) > 0 /\ s[1] = "/" THEN Tail(s) ELSE s

formFullPathToFile_noFileStrip(directory, filename) ==
    LET d == StripSlash(StripDotSlash(directory))
    IN IF Len(filename) = 0 THEN [err |-> "IndexError", path |-> <<>>]
       ELSE IF d = <<>> \/ d = <<".">> THEN [err |-> "none", path |-> filename]
       ELSE IF d[Len(d)] = "/" THEN [err |-> "none", path |-> d \o filename]
       ELSE [err |-> "none", path |-> d \o <<"/">> \o filename]

formFullPathToFile(directory, filename) ==
    LET f1 == StripDotSlash(filename)
        f == IF Len(f1) = 0 THEN f1 ELSE StripSlash(f1)
        d == StripSlash(StripDotSlash(directory))
    IN IF Len(f1) = 0 THEN [err |-> "IndexError", path |-> <<>>]
       ELSE IF d = <<>> \/ d = <<".">> THEN [err |-> "none", path |-> f]
       ELSE IF d[Len(d)] = "/" THEN [err |-> "none", path |-> d \o f]
       ELSE [err |-> "none", path |-> d \o <<"/">> \o f]

(***************************************************************************)
(* stringToPercentage                                                      *)
(***************************************************************************)
stringToPercentage(s) ==
    IF Len(s) = 0 THEN Zero
    ELSE LET pct == s[Len(s)] = "%"
             t == IF pct THEN Strip(SubSeq(s, 1, Len(s) - 1)) ELSE s
         IN IF pct /\ Len(t) = 0 THEN Zero
            ELSE IF ~FloatOk(t) THEN Zero
            ELSE LET p == FloatVal(t)
                     doDivide == pct \/ RLess(One, p)
                 IN IF doDivide THEN <<p[1], p[2] * 100>> ELSE p

(***************************************************************************)
(* coverageIsFailing: the decision and the diagnostics it prints           *)
(***************************************************************************)
coverageIsFailing(coverage, br, minCoverage, minBranches) ==
    [shouldFail |-> RLess(coverage, minCoverage) \/ RLess(br, minBranches),
     log |-> (IF RLess(coverage, minCoverage) THEN <<"coverage below threshold">> ELSE <<>>)
             \o (IF RLess(br, minBranches) THEN <<"branches below threshold">> ELSE <<>>)]

(***************************************************************************)
(* filterMissingReports.  exists is the set of paths os.path.exists        *)
(* accepts.  The result carries the list returned (goodReports), the       *)
(* caller's list after the call, the warnings printed and whether the      *)
(* function left through sys.exit(1).                                      *)
(***************************************************************************)
RECURSIVE GoodReports(_, _)
GoodReports(files, exists) ==
    IF Len(files) = 0 THEN <<>>
    ELSE (IF Head(files) \in exists THEN <<Head(files)>> ELSE <<>>)
         \o GoodReports(Tail(files), exists)

RECURSIVE MissingWarnings(_, _)
MissingWarnings(files, exists) ==
    IF Len(files) = 0 THEN <<>>
    ELSE (IF Head(files) \in exists THEN <<>> ELSE <<"WARNING: report does not exist">>)
         \o MissingWarnings(Tail(files), exists)

filterMissingReports_onlyAllMissing(files, failIfMissing, exists) ==
    LET goodReports == GoodReports(files, exists)
    IN [goodReports |-> goodReports,
        files |-> files,
        log |-> MissingWarnings(files, exists)
                \o (IF Len(goodReports) = 0 THEN <<"WARNING: No JaCoCo csv reports found.">>
                    ELSE <<>>),
        exit |-> failIfMissing /\ Len(goodReports) = 0]

filterMissingReports(files, failIfMissing, exists) ==
    LET goodReports == GoodReports(files, exists)
    IN [goodReports |-> goodReports,
        files |-> files,
        log |-> MissingWarnings(files, exists)
                \o (IF Len(goodReports) = 0 THEN <<"WARNING: No JaCoCo csv reports found.">>
                    ELSE <<>>),
        exit |-> \/ (Len(goodReports) = 0 /\ failIfMissing)
                 \/ (failIfMissing /\ Len(goodReports) # Len(files))]

(***************************************************************************)
(* computeCoverage.  content maps a path to the rows csv.reader yields; a  *)
(* row is a sequence of fields.  The accumulator is                        *)
(* <<missed, covered, missedBranches, coveredBranches>>; err names the     *)
(* exception that ended the parse, if any.                                 *)
(***************************************************************************)
Field(row, k) ==
    IF Len(row) < k + 1 THEN [err |-> "IndexError", v |-> 0]
    ELSE IF ~IntOk(row[k + 1]) THEN [err |-> "ValueError", v |-> 0]
    ELSE [err |-> "none", v |-> IntVal(row[k + 1])]

RECURSIVE AddFields(_, _, _)
AddFields(acc, row, k) ==
    IF k > 6 THEN acc
    ELSE LET f == Field(row, k)
         IN IF f.err # "none" THEN [acc EXCEPT !.err = f.err]
            ELSE AddFields([acc EXCEPT !.sums[k - 2] = @ + f.v], row, k + 1)

RECURSIVE AddRows_withHeader(_, _, _)
AddRows_withHeader(acc, rows, i) ==
    IF acc.err # "none" \/ i >= Len(rows) THEN acc
    ELSE AddRows_withHeader(AddFields(acc, rows[i + 1], 3), rows, i + 1)

RECURSIVE AddRows(_, _, _)
AddRows(acc, rows, i) ==
    IF acc.err # "none" \/ i >= Len(rows) THEN acc
    ELSE AddRows(IF i > 0 THEN AddFields(acc, rows[i + 1], 3) ELSE acc, rows, i + 1)

RECURSIVE AddFiles(_, _, _)
AddFiles(acc, fileList, content) ==
    IF acc.err # "none" \/ Len(fileList) = 0 THEN acc
    ELSE AddFiles(AddRows(acc, content[Head(fileList)], 0), Tail(fileList), content)

computeCoverage(fileList, content) ==
    LET acc == AddFiles([sums |-> <<0, 0, 0, 0>>, err |-> "none"], fileList, content)
    IN [err |-> acc.err,
        cov |-> IF acc.err # "none" THEN Zero
                ELSE calculatePercentage(acc.sums[2], acc.sums[1]),
        branches |-> IF acc.err # "none" THEN Zero
                     ELSE calculatePercentage(acc.sums[4], acc.sums[3])]

(***************************************************************************)
(* Inputs of a run of the driver: the command line and the file system.    *)
(***************************************************************************)
FileIds == {"a.csv", "b.csv"}

Header == << <<"G">>, <<"P">>, <<"C">>, <<"I", "M">>, <<"I", "C">>, <<"B", "M">>, <<"B", "C">> >>

Row(m, c, mb, cb) == << <<"g">>, <<"p">>, <<"c">>, IntStr(m), IntStr(c), IntStr(mb), IntStr(cb) >>

BadRow == << <<"g">>, <<"p">>, <<"c">>, <<"1">>, <<"x">>, <<"0">>, <<"2">> >>

DriverContents == { <<Header, Row(1, 3, 0, 2)>>,
                    <<Header, Row(3, 1, 1, 1)>>,
                    <<Header, Row(1, 3, 0, 2), BadRow>> }

FileSystems == {f \in [exists : SUBSET FileIds, content : [FileIds -> DriverContents \cup {<<>>}]] :
                   \A id \in FileIds : (id \in f.exists) <=> (f.content[id] # <<>>)}

ThresholdArgs == { <<>>, <<"5", "5", "%">> }

CommandLines == [files : Str(FileIds, MaxFiles),
                 badgesDirectory : { <<".">>, <<".", "/", "b", "/">> },
                 coverageFilename : { <<"c">>, <<>> },
                 branchesFilename : { <<"r">>, <<>> },
                 generateCoverageBadge : {"True", "false"},
                 generateBranchesBadge : {"True", "false"},
                 onMissingReport : {"fail", "Quiet", "badges", "skip"},
                 minCoverage : ThresholdArgs,
                 minBranches : ThresholdArgs]

\* str.lower() on the option words of CommandLines
Lower(w) == CASE w = "True" -> "true"
              [] w = "Quiet" -> "quiet"
              [] OTHER -> w

NoOpts == [generateCoverageBadge |-> FALSE, generateBranchesBadge |-> FALSE,
           onMissingReport |-> "", minCoverage |-> Zero, minBranches |-> Zero]

InitCall == fn = "none" /\ args = <<>> /\ ret = <<>>

Init ==
    /\ argv \in CommandLines
    /\ fs \in FileSystems
    /\ pc = "start"
    /\ opts = NoOpts
    /\ badgesDirectory = <<>>
    /\ jacocoFileList = <<>>
    /\ filteredFileList = <<>>
    /\ cov = Zero
    /\ branches = Zero
    /\ stdout = <<>>
    /\ badgeFiles = <<>>
    /\ dirs = {}
    /\ exitCode = -1
    /\ exitAt = "none"
    /\ InitCall

\* sys.exit(code), or an uncaught exception (code 1), at the place named
Exit(code, at) == pc' = "exit" /\ exitCode' = code /\ exitAt' = at

\* lines 262-274
ParseArgs ==
    /\ pc = "start"
    /\ opts' = [generateCoverageBadge |-> Lower(argv.generateCoverageBadge) = "true",
                generateBranchesBadge |-> Lower(argv.generateBranchesBadge) = "true",
                onMissingReport |-> Lower(argv.onMissingReport),
                minCoverage |-> stringToPercentage(argv.minCoverage),
                minBranches |-> stringToPercentage(argv.minBranches)]
    /\ IF opts'.onMissingReport \notin {"fail", "quiet", "badges"}
       THEN /\ stdout' = Append(stdout, "ERROR: Invalid value for on-missing-report.")
            /\ Exit(1, "policy")
       ELSE /\ pc' = "normalize"
            /\ UNCHANGED <<stdout, exitCode, exitAt>>
    /\ UNCHANGED <<argv, fs, badgesDirectory, jacocoFileList, filteredFileList,
                   cov, branches, badgeFiles, dirs, callVars>>

\* lines 276-283
NormalizeDirectory ==
    /\ pc = "normalize"
    /\ LET d == StripSlash(StripDotSlash(argv.badgesDirectory))
       IN badgesDirectory' = IF d = <<".">> THEN <<>> ELSE d
    /\ jacocoFileList' = argv.files
    /\ pc' = "filter"
    /\ UNCHANGED <<argv, fs, opts, filteredFileList, cov, branches, stdout,
                   badgeFiles, dirs, exitCode, exitAt, callVars>>

\* lines 284-288
FilterReports_ignoreQuiet ==
    /\ pc = "filter"
    /\ LET r == filterMissingReports(jacocoFileList, opts.onMissingReport = "fail", fs.exists)
       IN /\ stdout' = stdout \o r.log
          /\ jacocoFileList' = r.files
          /\ IF r.exit
             THEN /\ Exit(1, "filterMissingReports")
                  /\ UNCHANGED filteredFileList
             ELSE /\ filteredFileList' = r.goodReports
                  /\ IF Len(r.goodReports) > 0
                     THEN pc' = "compute" /\ UNCHANGED <<exitCode, exitAt>>
                     ELSE Exit(0, "end")
    /\ UNCHANGED <<argv, fs, opts, badgesDirectory, cov, branches, badgeFiles, dirs, callVars>>

FilterReports_failUnlessQuiet ==
    /\ pc = "filter"
    /\ LET r == filterMissingReports(jacocoFileList, opts.onMissingReport # "quiet", fs.exists)
       IN /\ stdout' = stdout \o r.log
          /\ jacocoFileList' = r.files
          /\ IF r.exit
             THEN /\ Exit(1, "filterMissingReports")
                  /\ UNCHANGED filteredFileList
             ELSE /\ filteredFileList' = r.goodReports
                  /\ LET noReportsMissing == Len(r.files) = Len(r.goodReports)
                     IN IF /\ Len(r.goodReports) > 0
                           /\ (noReportsMissing \/ opts.onMissingReport # "quiet")
                        THEN pc' = "compute" /\ UNCHANGED <<exitCode, exitAt>>
                        ELSE Exit(0, "end")
    /\ UNCHANGED <<argv, fs, opts, badgesDirectory, cov, branches, badgeFiles, dirs, callVars>>

FilterReports ==
    /\ pc = "filter"
    /\ LET r == filterMissingReports(jacocoFileList, opts.onMissingReport = "fail", fs.exists)
       IN /\ stdout' = stdout \o r.log
          /\ jacocoFileList' = r.files
          /\ IF r.exit
             THEN /\ Exit(1, "filterMissingReports")
                  /\ UNCHANGED filteredFileList
             ELSE /\ filteredFileList' = r.goodReports
                  /\ LET noReportsMissing == Len(r.files) = Len(r.goodReports)
                     IN IF /\ Len(r.goodReports) > 0
                           /\ (noReportsMissing \/ opts.onMissingReport # "quiet")
                        THEN pc' = "compute" /\ UNCHANGED <<exitCode, exitAt>>
                        ELSE Exit(0, "end")
    /\ UNCHANGED <<argv, fs, opts, badgesDirectory, cov, branches, badgeFiles, dirs, callVars>>

\* line 290
ComputeCoverage ==
    /\ pc = "compute"
    /\ LET r == computeCoverage(filteredFileList, fs.content)
       IN IF r.err # "none"
          THEN /\ Exit(1, "computeCoverage")
               /\ UNCHANGED <<cov, branches>>
          ELSE /\ cov' = r.cov
               /\ branches' = r.branches
               /\ pc' = "check"
               /\ UNCHANGED <<exitCode, exitAt>>
    /\ UNCHANGED <<argv, fs, opts, badgesDirectory, jacocoFileList, filteredFileList,
                   stdout, badgeFiles, dirs, callVars>>

\* lines 292-294
CheckThresholds_noExit ==
    /\ pc = "check"
    /\ LET r == coverageIsFailing(cov, branches, opts.minCoverage, opts.minBranches)
       IN /\ stdout' = stdout \o r.log
          /\ pc' = "mkdir"
          /\ UNCHANGED <<exitCode, exitAt>>
    /\ UNCHANGED <<argv, fs, opts, badgesDirectory, jacocoFileList, filteredFileList,
                   cov, branches, badgeFiles, dirs, callVars>>

CheckThresholds_outputsFirst ==
    /\ pc = "check"
    /\ LET r == coverageIsFailing(cov, branches, opts.minCoverage, opts.minBranches)
           out == <<"::set-output name=coverage::", "::set-output name=branches::">>
       IN IF r.shouldFail
          THEN /\ stdout' = ((stdout \o out) \o r.log) \o <<"Failing the workflow run.">>
               /\ Exit(1, "threshold")
          ELSE /\ stdout' = stdout \o r.log
               /\ pc' = "mkdir"
               /\ UNCHANGED <<exitCode, exitAt>>
    /\ UNCHANGED <<argv, fs, opts, badgesDirectory, jacocoFileList, filteredFileList,
                   cov, branches, badgeFiles, dirs, callVars>>

CheckThresholds ==
    /\ pc = "check"
    /\ LET r == coverageIsFailing(cov, branches, opts.minCoverage, opts.minBranches)
       IN IF r.shouldFail
          THEN /\ stdout' = (stdout \o r.log) \o <<"Failing the workflow run.">>
               /\ Exit(1, "threshold")
          ELSE /\ stdout' = stdout \o r.log
               /\ pc' = "mkdir"
               /\ UNCHANGED <<exitCode, exitAt>>
    /\ UNCHANGED <<argv, fs, opts, badgesDirectory, jacocoFileList, filteredFileList,
                   cov, branches, badgeFiles, dirs, callVars>>

\* lines 296-297
CreateOutputDirectories ==
    /\ pc = "mkdir"
    /\ dirs' = IF (opts.generateCoverageBadge \/ opts.generateBranchesBadge)
                  /\ badgesDirectory # <<>>
               THEN dirs \cup {badgesDirectory} ELSE dirs
    /\ pc' = "coverageBadge"
    /\ UNCHANGED <<argv, fs, opts, badgesDirectory, jacocoFileList, filteredFileList,
                   cov, branches, stdout, badgeFiles, exitCode, exitAt, callVars>>

\* one badge: lines 299-302 and 304-307
WriteBadge(enabled, ratio, filename, badgeType, next) ==
    IF ~enabled
    THEN pc' = next /\ UNCHANGED <<badgeFiles, exitCode, exitAt>>
    ELSE LET pair == badgeCoverageStringColorPair(ratio)
             path == formFullPathToFile(badgesDirectory, filename)
         IN IF path.err # "none"
            THEN Exit(1, "formFullPathToFile") /\ UNCHANGED badgeFiles
            ELSE /\ badgeFiles' = Append(badgeFiles,
                                         [path |-> path.path,
                                          badge |-> generateBadge(pair[1], pair[2], badgeType)])
                 /\ pc' = next
                 /\ UNCHANGED <<exitCode, exitAt>>

WriteCoverageBadge ==
    /\ pc = "coverageBadge"
    /\ WriteBadge(opts.generateCoverageBadge, cov, argv.coverageFilename, "coverage",
                  "branchesBadge")
    /\ UNCHANGED <<argv, fs, opts, badgesDirectory, jacocoFileList, filteredFileList,
                   cov, branches, stdout, dirs, callVars>>

WriteBranchesBadge ==
    /\ pc = "branchesBadge"
    /\ WriteBadge(opts.generateBranchesBadge, branches, argv.branchesFilename, "branches",
                  "output")
    /\ UNCHANGED <<argv, fs, opts, badgesDirectory, jacocoFileList, filteredFileList,
                   cov, branches, stdout, dirs, callVars>>

\* lines 309-310
SetOutputs ==
    /\ pc = "output"
    /\ stdout' = stdout \o <<"::set-output name=coverage::", "::set-output name=branches::">>
    /\ Exit(0, "end")
    /\ UNCHANGED <<argv, fs, opts, badgesDirectory, jacocoFileList, filteredFileList,
                   cov, branches, badgeFiles, dirs, callVars>>

Next ==
    \/ ParseArgs
    \/ NormalizeDirectory
    \/ FilterReports
    \/ ComputeCoverage
    \/ CheckThresholds
    \/ CreateOutputDirectories
    \/ WriteCoverageBadge
    \/ WriteBranchesBadge
    \/ SetOutputs

Spec == Init /\ [][Next]_vars

(***************************************************************************)
(* The driver as a function of its inputs: what lines 284-310 leave behind *)
(* when they are run under the given missing-report policy.                *)
(***************************************************************************)
Outcome(code, at, out, files, c, b, d) ==
    [exitCode |-> code, exitAt |-> at, stdout |-> out, badgeFiles |-> files,
     cov |-> c, branches |-> b, dirs |-> d]

Observed == Outcome(exitCode, exitAt, stdout, badgeFiles, cov, branches, dirs)

BadgeWrite(ratio, directory, filename, badgeType) ==
    LET pair == badgeCoverageStringColorPair(ratio)
    IN [path |-> formFullPathToFile(directory, filename).path,
        badge |-> generateBadge(pair[1], pair[2], badgeType)]

Pipeline(good, log) ==
    LET gc == Lower(argv.generateCoverageBadge) = "true"
        gb == Lower(argv.generateBranchesBadge) = "true"
        d0 == StripSlash(StripDotSlash(argv.badgesDirectory))
        bd == IF d0 = <<".">> THEN <<>> ELSE d0
        c == computeCoverage(good, fs.content)
        t == coverageIsFailing(c.cov, c.branches, stringToPercentage(argv.minCoverage),
                               stringToPercentage(argv.minBranches))
        made == IF (gc \/ gb) /\ bd # <<>> THEN {bd} ELSE {}
        w1 == IF gc THEN <<BadgeWrite(c.cov, bd, argv.coverageFilename, "coverage")>> ELSE <<>>
        w2 == IF gb THEN <<BadgeWrite(c.branches, bd, argv.branchesFilename, "branches")>> ELSE <<>>
    IN IF c.err # "none" THEN Outcome(1, "computeCoverage", log, <<>>, Zero, Zero, {})
       ELSE IF t.shouldFail
       THEN Outcome(1, "threshold", (log \o t.log) \o <<"Failing the workflow run.">>,
                    <<>>, c.cov, c.branches, {})
       ELSE IF gc /\ formFullPathToFile(bd, argv.coverageFilename).err # "none"
       THEN Outcome(1, "formFullPathToFile", log, <<>>, c.cov, c.branches, made)
       ELSE IF gb /\ formFullPathToFile(bd, argv.branchesFilename).err # "none"
       THEN Outcome(1, "formFullPathToFile", log, w1, c.cov, c.branches, made)
       ELSE Outcome(0, "end",
                    log \o <<"::set-output name=coverage::", "::set-output name=branches::">>,
                    w1 \o w2, c.cov, c.branches, made)

Run(policy) ==
    LET r == filterMissingReports(argv.files, policy = "fail", fs.exists)
    IN IF r.exit THEN Outcome(1, "filterMissingReports", r.log, <<>>, Zero, Zero, {})
       ELSE IF Len(r.goodReports) > 0
               /\ (Len(r.files) = Len(r.goodReports) \/ policy # "quiet")
       THEN Pipeline(r.goodReports, r.log)
       ELSE Outcome(0, "end", r.log, <<>>, Zero, Zero, {})

(***************************************************************************)
(* Calls of the helper functions on inputs drawn from bounded sets.        *)
(***************************************************************************)
PathChars == {".", "/", "a"}

PctChars == {"1", "5", ".", "%", "-", " ", "x"}

Ratios == {<<n, d>> : n \in 0..MaxDen, d \in 1..MaxDen} \cup {<<n, 1000>> : n \in 0..1000}

ReportIds == FileIds \cup {"c.csv"}

PureRows == {Row(0, 2, 1, 1), Row(1, 3, 0, 0), BadRow}

PureContents == {<<>>} \cup {<<h>> \o rs : h \in {Header, Row(2, 1, 1, 0)}, rs \in Str(PureRows, MaxRows)}

InitDriverIdle ==
    /\ argv = [files |-> <<>>, badgesDirectory |-> <<>>, coverageFilename |-> <<>>,
               branchesFilename |-> <<>>, generateCoverageBadge |-> "false",
               generateBranchesBadge |-> "false", onMissingReport |-> "quiet",
               minCoverage |-> <<>>, minBranches |-> <<>>]
    /\ fs = [exists |-> {}, content |-> [id \in FileIds |-> <<>>]]
    /\ pc = "call"
    /\ opts = NoOpts
    /\ badgesDirectory = <<>>
    /\ jacocoFileList = <<>>
    /\ filteredFileList = <<>>
    /\ cov = Zero
    /\ branches = Zero
    /\ stdout = <<>>
    /\ badgeFiles = <<>>
    /\ dirs = {}
    /\ exitCode = -1
    /\ exitAt = "none"

InitPure ==
    /\ InitDriverIdle
    /\ ret = <<>>
    /\ \/ fn = "calculatePercentage" /\ args \in (0..MaxCount) \X (0..MaxCount)
       \/ fn = "badgeCoverageStringColorPair" /\ args \in {<<r>> : r \in {q \in Ratios : q[1] <= q[2]}}
       \/ fn = "formFullPathToFile" /\ args \in Str(PathChars, MaxLen) \X Str(PathChars, MaxLen)
       \/ fn = "stringToPercentage" /\ args \in {<<w>> : w \in Str(PctChars, MaxLen)}
       \/ fn = "filterMissingReports"
          /\ args \in Str(ReportIds, MaxFiles + 1) \X BOOLEAN \X (SUBSET ReportIds)
       \/ fn = "computeCoverage"
          /\ args \in Str(FileIds, MaxFiles) \X [FileIds -> PureContents]

Return(f, value) ==
    /\ pc = "call"
    /\ fn = f
    /\ ret' = value
    /\ pc' = "returned"
    /\ UNCHANGED <<argv, fs, opts, badgesDirectory, jacocoFileList, filteredFileList,
                   cov, branches, stdout, badgeFiles, dirs, exitCode, exitAt, fn, args>>

CallCalculatePercentage ==
    fn = "calculatePercentage" /\ Return("calculatePercentage", calculatePercentage(args[1], args[2]))

CallBadgeCoverageStringColorPair ==
    fn = "badgeCoverageStringColorPair"
    /\ Return("badgeCoverageStringColorPair", badgeCoverageStringColorPair(args[1]))

CallFormFullPathToFile ==
    fn = "formFullPathToFile" /\ Return("formFullPathToFile", formFullPathToFile(args[1], args[2]))

CallStringToPercentage ==
    fn = "stringToPercentage" /\ Return("stringToPercentage", stringToPercentage(args[1]))

CallFilterMissingReports ==
    fn = "filterMissingReports"
    /\ Return("filterMissingReports", filterMissingReports(args[1], args[2], args[3]))

CallComputeCoverage ==
    fn = "computeCoverage" /\ Return("computeCoverage", computeCoverage(args[1], args[2]))

NextPure ==
    \/ CallCalculatePercentage
    \/ CallBadgeCoverageStringColorPair
    \/ CallFormFullPathToFile
    \/ CallStringToPercentage
    \/ CallFilterMissingReports
    \/ CallComputeCoverage

PureSpec == InitPure /\ [][NextPure]_vars

Returned(f) == fn = f /\ pc = "returned"

(***************************************************************************)
(* Properties.                                                             *)
(***************************************************************************)
OutputLines == {"::set-output name=coverage::", "::set-output name=branches::"}

NoOutputs(out) == \A i \in 1..Len(out) : out[i] \notin OutputLines

BadgeWritten(kind) == \E i \in 1..Len(badgeFiles) : badgeFiles[i].badge.title = kind

Existing(files, exists) == SelectSeq(files, LAMBDA f : f \in exists)

SomeMissing(files, exists) == \E i \in 1..Len(files) : files[i] \notin exists

NamedBadges == Len(argv.coverageFilename) > 0 /\ Len(argv.branchesFilename) > 0

ValidPolicy == opts.onMissingReport \in {"fail", "quiet", "badges"}

\* C1 (as stated): when aggregation succeeded and the thresholds are violated,
\* every badge whose generate flag is set has been written by the time the run
\* is terminated as fatal.
C1_BadgesBeforeThresholdExit ==
    (pc = "exit" /\ exitAt = "threshold" /\ NamedBadges) =>
        /\ opts.generateCoverageBadge => BadgeWritten("coverage")
        /\ opts.generateBranchesBadge => BadgeWritten("branches")

\* C1 (amended): when aggregation succeeded and coverageIsFailing returns true,
\* the threshold check prints its diagnostics and terminates the run as fatal at
\* once: no badge has been written and no output variable emitted.
C1_ThresholdExitBeforeBadges ==
    [][(pc = "check"
        /\ coverageIsFailing(cov, branches, opts.minCoverage, opts.minBranches).shouldFail)
       => /\ pc' = "exit"
          /\ exitCode' = 1
          /\ exitAt' = "threshold"
          /\ badgeFiles' = <<>>
          /\ NoOutputs(stdout')
          /\ Len(stdout') >= 2
          /\ stdout'[Len(stdout')] = "Failing the workflow run."
          /\ stdout'[Len(stdout') - 1] \in {"coverage below threshold", "branches below threshold"}
      ]_vars

C1_Witness ==
    /\ pc = "exit"
    /\ exitAt = "threshold"
    /\ opts.generateCoverageBadge
    /\ opts.generateBranchesBadge
    /\ badgeFiles = <<>>
    /\ stdout[Len(stdout)] = "Failing the workflow run."

\* C2: a run that ends in one of the fatal conditions (invalid policy, missing
\* report under fail, non-integer report field, threshold violation) has exit
\* code 1, has written no badge file and has emitted no output variable.
C2_FatalLeavesNothing ==
    (pc = "exit" /\ exitAt \in {"policy", "filterMissingReports", "computeCoverage", "threshold"})
        => /\ exitCode = 1
           /\ badgeFiles = <<>>
           /\ NoOutputs(stdout)

C2_Witness ==
    /\ pc = "exit"
    /\ exitAt = "computeCoverage"
    /\ opts.generateCoverageBadge
    /\ opts.generateBranchesBadge
    /\ Len(filteredFileList) = 2
    /\ badgeFiles = <<>>

\* C3 (as stated): under quiet, a run in which no listed report is missing ends
\* exactly as it would under fail and under badges.
C3_QuietAsOthersWhenNoneMissing ==
    (pc = "exit" /\ opts.onMissingReport = "quiet" /\ ~SomeMissing(argv.files, fs.exists))
        => Observed = Run("fail") /\ Observed = Run("badges")

\* C3 (amended): under quiet, with a listed report missing the run never
\* aggregates or checks thresholds, writes no badge, emits no output variable and
\* ends with exit code 0; with no report missing and at least one report listed
\* it ends exactly as under fail and under badges.
C3_QuietPolicy ==
    /\ (opts.onMissingReport = "quiet" /\ SomeMissing(argv.files, fs.exists))
           => /\ pc \in {"normalize", "filter", "exit"}
              /\ badgeFiles = <<>>
              /\ NoOutputs(stdout)
              /\ cov = Zero /\ branches = Zero
              /\ \A i \in 1..Len(stdout) : stdout[i] \notin {"coverage below threshold",
                                                            "branches below threshold",
                                                            "Failing the workflow run."}
              /\ pc = "exit" => exitCode = 0
    /\ (pc = "exit" /\ ValidPolicy) => Observed = Run(opts.onMissingReport)
    /\ (pc = "exit" /\ opts.onMissingReport = "quiet"
        /\ ~SomeMissing(argv.files, fs.exists) /\ Len(argv.files) > 0)
           => Observed = Run("fail") /\ Observed = Run("badges")

C3_Witness ==
    /\ pc = "exit"
    /\ opts.onMissingReport = "quiet"
    /\ SomeMissing(argv.files, fs.exists)
    /\ Len(filteredFileList) = 1
    /\ LET c == computeCoverage(filteredFileList, fs.content)
       IN c.err = "none"
          /\ coverageIsFailing(c.cov, c.branches, opts.minCoverage, opts.minBranches).shouldFail
    /\ exitCode = 0

\* C4 (as stated): under badges, a run over a non-empty list that is not fatal
\* has aggregated exactly the existing files and has emitted the enabled badges
\* and both output variables, whichever files are missing.
C4_BadgesAlwaysEmits ==
    (pc = "exit" /\ opts.onMissingReport = "badges" /\ Len(argv.files) > 0 /\ exitCode = 0
     /\ NamedBadges)
        => LET c == computeCoverage(Existing(argv.files, fs.exists), fs.content)
           IN /\ cov = c.cov /\ branches = c.branches
              /\ ~NoOutputs(stdout)
              /\ opts.generateCoverageBadge => BadgeWritten("coverage")
              /\ opts.generateBranchesBadge => BadgeWritten("branches")

\* C4 (amended): under badges a missing file is never fatal.  When at least one
\* listed report exists the run aggregates exactly the existing files and checks
\* the thresholds against them, and a run that reaches its normal end has written
\* the enabled badges and both output variables; when no listed report exists the
\* run aggregates nothing, writes nothing and ends with exit code 0.
C4_BadgesPolicy ==
    (pc = "exit" /\ opts.onMissingReport = "badges")
        => LET good == Existing(argv.files, fs.exists)
               c == computeCoverage(good, fs.content)
               failing == coverageIsFailing(c.cov, c.branches, opts.minCoverage,
                                            opts.minBranches).shouldFail
           IN /\ exitAt # "filterMissingReports"
              /\ filteredFileList = good
              /\ IF Len(good) = 0
                 THEN exitCode = 0 /\ badgeFiles = <<>> /\ NoOutputs(stdout)
                      /\ cov = Zero /\ branches = Zero
                 ELSE /\ (c.err # "none") <=> (exitAt = "computeCoverage")
                      /\ c.err = "none" =>
                           /\ cov = c.cov /\ branches = c.branches
                           /\ failing <=> (exitAt = "threshold")
                           /\ exitCode = 0 =>
                                /\ ~failing
                                /\ opts.generateCoverageBadge <=> BadgeWritten("coverage")
                                /\ opts.generateBranchesBadge <=> BadgeWritten("branches")
                                /\ Len(stdout) >= 2
                                /\ stdout[Len(stdout) - 1] = "::set-output name=coverage::"
                                /\ stdout[Len(stdout)] = "::set-output name=branches::"

C4_Witness ==
    /\ pc = "exit"
    /\ opts.onMissingReport = "badges"
    /\ Len(argv.files) = 2
    /\ SomeMissing(argv.files, fs.exists)
    /\ Len(filteredFileList) = 1
    /\ exitAt = "end"
    /\ BadgeWritten("coverage")
    /\ BadgeWritten("branches")
    /\ ~NoOutputs(stdout)

\* C5: filterMissingReports leaves through the fatal exit exactly when
\* failIfMissing is set and a listed file is missing or no listed file exists;
\* otherwise it returns the existing files in their original order and leaves
\* the caller's list as it was.
C5_FilterContract ==
    Returned("filterMissingReports") =>
        LET files == args[1]
            failIfMissing == args[2]
            exists == args[3]
        IN /\ ret.exit <=> (failIfMissing /\ (SomeMissing(files, exists)
                                              \/ Existing(files, exists) = <<>>))
           /\ ~failIfMissing => ~ret.exit
           /\ ~ret.exit => /\ ret.goodReports = Existing(files, exists)
                           /\ ret.files = files

C5_Witness ==
    /\ Returned("filterMissingReports")
    /\ Len(args[1]) = 3
    /\ ~args[2]
    /\ Len(ret.goodReports) = 2
    /\ ~ret.exit
    /\ filterMissingReports(args[1], TRUE, args[3]).exit

\* the data cells of the listed files: <<position in the list, row index>>, row 0 left out
DataCells(fileList, content) ==
    {cell \in (1..Len(fileList)) \X (2..(MaxRows + 1)) :
        cell[2] <= Len(content[fileList[cell[1]]])}

RECURSIVE SumCells(_, _, _, _)
SumCells(cells, fileList, content, k) ==
    IF cells = {} THEN 0
    ELSE LET cell == CHOOSE x \in cells : TRUE
         IN IntVal(content[fileList[cell[1]]][cell[2]][k + 1])
            + SumCells(cells \ {cell}, fileList, content, k)

Total(fileList, content, k) == SumCells(DataCells(fileList, content), fileList, content, k)

Permuted(fileList) ==
    {[i \in 1..Len(fileList) |-> fileList[p[i]]] :
        p \in {q \in [1..Len(fileList) -> 1..Len(fileList)] :
                  \A a, b \in 1..Len(fileList) : q[a] = q[b] => a = b}}

RECURSIVE DataRowsOf(_, _)
DataRowsOf(fileList, content) ==
    IF Len(fileList) = 0 THEN <<>>
    ELSE (IF Len(content[Head(fileList)]) = 0 THEN <<>> ELSE Tail(content[Head(fileList)]))
         \o DataRowsOf(Tail(fileList), content)

\* C6: computeCoverage returns the ratio of the column totals over every row but
\* row 0 of every listed file; any reordering of the list, and the same data rows
\* gathered in one file, give the same pair; a total of 0 missed gives exactly 1.
C6_AggregateOverAllFiles ==
    (Returned("computeCoverage") /\ ret.err = "none") =>
        LET fileList == args[1]
            content == args[2]
            merged == [id \in FileIds |-> <<Header>> \o DataRowsOf(fileList, content)]
        IN /\ ret.cov = calculatePercentage(Total(fileList, content, 4), Total(fileList, content, 3))
           /\ ret.branches = calculatePercentage(Total(fileList, content, 6),
                                                 Total(fileList, content, 5))
           /\ \A other \in Permuted(fileList) : computeCoverage(other, content) = ret
           /\ computeCoverage(<<"a.csv">>, merged) = ret
           /\ Total(fileList, content, 3) = 0 => ret.cov = One
           /\ Total(fileList, content, 5) = 0 => ret.branches = One

C6_Witness ==
    /\ Returned("computeCoverage")
    /\ ret.err = "none"
    /\ Len(args[1]) = 2
    /\ args[1][1] # args[1][2]
    /\ Len(args[2][args[1][1]]) = 3
    /\ Len(args[2][args[1][2]]) = 2
    /\ args[2][args[1][1]] # args[2][args[1][2]]
    /\ IntOk(args[2][args[1][1]][1][4])
    /\ Total(args[1], args[2], 3) > 0
    /\ Total(args[1], args[2], 5) = 0
    /\ ret.branches = One
    /\ RLess(Zero, ret.cov) /\ RLess(ret.cov, One)

\* C7 (as stated): with missed > 0 the ratio lies strictly between 0 and 1, is
\* strictly decreasing in missed and strictly increasing in covered.
C7_StrictlyInsideUnitInterval ==
    (Returned("calculatePercentage") /\ args[2] > 0) =>
        /\ RLess(Zero, ret) /\ RLess(ret, One)
        /\ \A m \in 1..(MaxCount + 1) :
              m > args[2] => RLess(calculatePercentage(args[1], m), ret)
        /\ \A c \in 0..(MaxCount + 1) :
              c > args[1] => RLess(ret, calculatePercentage(c, args[2]))

\* C7 (amended): with missed > 0 the ratio lies in [0, 1) and is 0 exactly when
\* covered is 0; it is strictly increasing in covered, and strictly decreasing in
\* missed when covered > 0 (constant 0 when covered is 0).
C7_RatioBoundsAndMonotone ==
    (Returned("calculatePercentage") /\ args[2] > 0) =>
        /\ RLeq(Zero, ret) /\ RLess(ret, One)
        /\ REq(ret, Zero) <=> (args[1] = 0)
        /\ \A m \in 1..(MaxCount + 1) :
              m > args[2] => IF args[1] > 0
                             THEN RLess(calculatePercentage(args[1], m), ret)
                             ELSE REq(calculatePercentage(args[1], m), ret)
        /\ \A c \in 0..(MaxCount + 1) :
              c > args[1] => RLess(ret, calculatePercentage(c, args[2]))

C7_Witness ==
    /\ Returned("calculatePercentage")
    /\ args[1] = 0
    /\ args[2] = 2
    /\ REq(ret, Zero)

ColorOf(pair) == CHOOSE i \in 0..(Len(colors) - 1) : colors[i + 1] = pair[2]

\* C8 (as stated): a ratio whose truncated percentage is at least 90 gets the
\* best colour, index 0 of the palette.
C8_NinetyIsBestTier ==
    (Returned("badgeCoverageStringColorPair") /\ (1000 * args[1][1]) \div args[1][2] >= 900)
        => ret[2] = colors[1]

\* C8 (amended): index 0 is selected exactly when the truncated percentage is
\* 100; [90, 100) selects index 1, [80, 90) index 2, [70, 80) index 3, [60, 70)
\* index 4 and everything below 60 index 5.
C8_TierBands ==
    Returned("badgeCoverageStringColorPair") =>
        LET t == (1000 * args[1][1]) \div args[1][2]
            c == ColorOf(ret)
        IN /\ ret[2] \in {colors[i] : i \in 1..6}
           /\ (c = 0) <=> (t = 1000)
           /\ (c = 1) <=> (900 <= t /\ t < 1000)
           /\ (c = 2) <=> (800 <= t /\ t < 900)
           /\ (c = 3) <=> (700 <= t /\ t < 800)
           /\ (c = 4) <=> (600 <= t /\ t < 700)
           /\ (c = 5) <=> (t < 600)

C8_Witness ==
    /\ Returned("badgeCoverageStringColorPair")
    /\ args[1] = <<9, 10>>
    /\ ret = << <<"9", "0", "%">>, "#97ca00" >>

Clean(path) ==
    /\ ~StartsWith(path, <<".", "/">>)
    /\ ~StartsWith(path, <<"/">>)
    /\ ~HasDoubleSlash(path)

\* at most one leading "./", then at most one leading "/", then a clean remainder
SinglyPrefixed(path) ==
    \E k \in 0..3 :
        /\ k <= Len(path)
        /\ SubSeq(path, 1, k) \in {<<>>, <<".", "/">>, <<"/">>, <<".", "/", "/">>}
        /\ Clean(SubSeq(path, k + 1, Len(path)))

\* C9 (as stated): whenever formFullPathToFile returns, the path does not begin
\* with "./" or "/" and contains no "//".
C9_PathAlwaysClean ==
    (Returned("formFullPathToFile") /\ ret.err = "none") => Clean(ret.path)

\* C9 (amended): whenever formFullPathToFile returns for a directory and a
\* filename that each carry at most one leading "./" followed by at most one
\* leading "/" before a remainder that neither begins with "./" or "/" nor
\* contains "//", the path does not begin with "./" or "/" and contains no "//".
C9_PathCleanForSinglyPrefixed ==
    (Returned("formFullPathToFile") /\ ret.err = "none"
     /\ SinglyPrefixed(args[1]) /\ SinglyPrefixed(args[2])) => Clean(ret.path)

C9_Witness ==
    /\ Returned("formFullPathToFile")
    /\ args[1] = <<".", "/", "a">>
    /\ args[2] = <<".", "/", "a">>
    /\ ret.err = "none"
    /\ ret.path = <<"a", "/", "a">>

\* C10: stringToPercentage returns a value in [0, 1] for every input string.
C10_ResultInUnitInterval ==
    Returned("stringToPercentage") => RLeq(Zero, ret) /\ RLeq(ret, One)

====
